---- MODULE Spec2Model ----
(***************************************************************************)
(* Model of the two ingestion flows of dlt_project:                        *)
(*   - the ShipHero orders flow (defs/shiphero_bigquery_ingest/loads.py):  *)
(*     get_orders -> query_shiphero -> get_orders_data / get_order_items,  *)
(*     with the credit-based throttle and the updated_at watermark;        *)
(*   - the AppLovin ad-metrics flow (defs/applovin/__init__.py):           *)
(*     advertiser_data -> get_advertiser_data -> handle_rate_limit,        *)
(*     and transform_record.                                               *)
(*                                                                         *)
(* Timestamps are ISO strings in the program; the code only compares them  *)
(* with == and max(), i.e. by string order, so a timestamp is modelled by  *)
(* its rank in that order (a natural number).                              *)
(***************************************************************************)
EXTENDS Integers, Sequences, FiniteSets, TLC

(* ------------------------------ bounds -------------------------------- *)
\* largest number of orders in one orders response
MaxOrders == 2
\* timestamps are the ranks 0..MaxTime
MaxTime == 2
\* largest number of consecutive HTTP 429 responses to one fetch
MaxRetry == 3
\* largest number of orders the ShipHero account holds
MaxSource == 11

(* ------------------------ program constants --------------------------- *)
\* settings.LINE_ITEMS_COMPLEXITY
LINE_ITEMS_COMPLEXITY == 102
\* rank of initial_value="2025-08-01T00:00:00+00:00" of the incremental cursor
InitialValue == 1
\* settings.ORDERS_LIMIT, the "first" variable of the orders query
ORDERS_LIMIT == 10

VARIABLES
  \* ---- orders flow
  watermark,   \* the persisted cursor state (dlt incremental last_value)
  o_pc,        \* position of the run: idle, orders, loop, call, await, done, failed
  since,       \* updated_at.start_value of the current run
  orders,      \* query_shiphero's local list of orders
  complexity,  \* query_shiphero's local complexity
  credits,     \* query_shiphero's local credits
  increment_rate, \* query_shiphero's local increment_rate
  idx,         \* loop index i of query_shiphero (1-based)
  received,    \* the response bodies received this run, in order of arrival
  pending,     \* time.sleep durations since the last line-item call was issued
  calls,       \* line-item calls issued this run: [id, sleeps]
  result,      \* what query_shiphero returned
  yielded,     \* what get_orders yielded
  o_exc,       \* the exception that ended the run, or "none"
  source       \* the orders the ShipHero account holds, oldest first

ovars == << watermark, o_pc, since, orders, complexity, credits, increment_rate,
            idx, received, pending, calls, result, yielded, o_exc, source >>

\* ---- ad-metrics flow
VARIABLES
  a_pc,        \* idle, wait (request in flight), slept, done, failed
  a_key,       \* whether APPLOVIN_API_KEY is set in the environment
  a_window,    \* (start_str, end_str) of advertiser_data
  a_requests,  \* parameters of the GET requests issued this run
  a_received,  \* (status, headers, text) of the responses received this run
  a_sleeps,    \* time.sleep durations of this run
  a_raw,       \* what get_advertiser_data returned
  a_yielded,   \* the items advertiser_data yielded
  a_exc        \* the exception that ended the run, or [type |-> "none"]

avars == << a_pc, a_key, a_window, a_requests, a_received, a_sleeps, a_raw,
            a_yielded, a_exc >>

(* --------------------------- small helpers ---------------------------- *)
Max(a, b) == IF a >= b THEN a ELSE b

Range(s) == { s[k] : k \in 1..Len(s) }

\* injective sequences over S of length n
InjSeqs(S, n) == { s \in [1..n -> S] : \A a, b \in 1..n : s[a] = s[b] => a = b }

(* --------------------- the ShipHero API, as input ---------------------- *)
Times == 0..MaxTime

OrderIds == 1..MaxOrders

\* the "data/orders/data/edges/*/node" lists a response can carry: at most
\* MaxOrders orders, each id once, in any order, with any updated_at; a node
\* has no line_items key yet
OrderLists ==
  UNION { { [k \in 1..n |-> [id |-> ids[k], updated_at |-> ts[k]]] :
              ids \in InjSeqs(OrderIds, n), ts \in [1..n -> Times] } :
          n \in 0..MaxOrders }

ThrottlePaths == { "throttling/estimated_complexity",
                   "throttling/user_quota/credits_remaining",
                   "throttling/user_quota/increment_rate" }

Throttle(c, cr, r) ==
  [p \in ThrottlePaths |->
     IF p = "throttling/estimated_complexity" THEN c
     ELSE IF p = "throttling/user_quota/credits_remaining" THEN cr
     ELSE r]

\* complete throttling blocks the API may report
ThrottleSamples == { Throttle(102, 200, 60), Throttle(102, 50, 60),
                     Throttle(102, 102, 60), Throttle(60, 80, 30),
                     Throttle(102, 50, 0) }

\* an extensions object: a throttling block with any of its paths missing
Extensions ==
  { [p \in S |-> t[p]] : t \in ThrottleSamples, S \in SUBSET ThrottlePaths }

\* the line items the server holds for an order id (order 1 has none)
ServerLineItems(id) == [j \in 1..(id - 1) |-> [id |-> j, order |-> id]]

(* ----------------------- loads.py, pure parts -------------------------- *)
\* dpath.values(obj, path): the list of the values found at path
DpathValues(obj, path) == IF path \in DOMAIN obj THEN << obj[path] >> ELSE << >>

\* mutant: a missing increment_rate is read as 0 instead of failing
process_extensions_DefaultRate(extensions) ==
  LET c  == DpathValues(extensions, "throttling/estimated_complexity")
      cr == DpathValues(extensions, "throttling/user_quota/credits_remaining")
      r  == DpathValues(extensions, "throttling/user_quota/increment_rate")
  IN  IF c = << >> \/ cr = << >>
        THEN [exc |-> "IndexError"]
        ELSE [exc |-> "none", complexity |-> c[1], credits |-> cr[1],
              increment_rate |-> IF r = << >> THEN 0 ELSE r[1]]

\* process_extensions: each lookup is dpath.values(...)[0], an IndexError
\* when the path is absent
process_extensions(extensions) ==
  LET c  == DpathValues(extensions, "throttling/estimated_complexity")
      cr == DpathValues(extensions, "throttling/user_quota/credits_remaining")
      r  == DpathValues(extensions, "throttling/user_quota/increment_rate")
  IN  IF c = << >> \/ cr = << >> \/ r = << >>
        THEN [exc |-> "IndexError"]
        ELSE [exc |-> "none", complexity |-> c[1], credits |-> cr[1],
              increment_rate |-> r[1]]

\* get_orders_data on a response body (a JSON object that may lack the
\* "extensions" key): (data, complexity, credits, increment_rate) or raises
get_orders_data(body) ==
  IF "extensions" \notin DOMAIN body
    THEN [exc |-> "KeyError"]
    ELSE LET e == process_extensions(body["extensions"])
         IN  IF e.exc # "none" THEN e
             ELSE [exc |-> "none", data |-> body["data"],
                   complexity |-> e.complexity, credits |-> e.credits,
                   increment_rate |-> e.increment_rate]

\* get_order_items on a response body
get_order_items(body) ==
  IF "extensions" \notin DOMAIN body
    THEN [exc |-> "KeyError"]
    ELSE LET e == process_extensions(body["extensions"])
         IN  IF e.exc # "none" THEN e
             ELSE [exc |-> "none", data |-> body["data"],
                   complexity |-> e.complexity, credits |-> e.credits,
                   increment_rate |-> e.increment_rate]

\* max(dates) with dates = [x["updated_at"] for x in orders], orders non-empty
MaxDate(ords) ==
  CHOOSE m \in { ords[k].updated_at : k \in 1..Len(ords) } :
    \A k \in 1..Len(ords) : ords[k].updated_at <= m

\* mutant: the "since == max(dates)" test is lost
NoNewData_EmptyOnly(s, ords) == ords = << >>

\* the two early "return []" of query_shiphero
NoNewData(s, ords) == ords = << >> \/ s = MaxDate(ords)

\* mutant: sleeps also when the credits just cover the call
NeedsSleep_OrEqual(cr, c) == cr <= c

\* "if credits < complexity" before a line-item call
NeedsSleep(cr, c) == cr < c

\* complexity/increment_rate*1.5, kept as the exact fraction 3c / 2r
SleepSeconds(c, r) == [num |-> 3 * c, den |-> 2 * r]

\* mutant: the line items always land on the first order
AttachLineItems_First(ords, i, data) ==
  [ords EXCEPT ![1] = [id |-> @.id, updated_at |-> @.updated_at,
                       line_items |-> data]]

\* orders[i]["line_items"] = data
AttachLineItems(ords, i, data) ==
  [ords EXCEPT ![i] = [id |-> @.id, updated_at |-> @.updated_at,
                       line_items |-> data]]

\* mutant: only the first order is yielded
YieldFrom_First(data) == IF data = << >> THEN << >> ELSE << data[1] >>

\* get_orders: "if not data: return", else "yield from data"
YieldFrom(data) == data

\* the incremental cursor on "updated_at" (last_value_func max): the value
\* persisted after a successful run
LastValue(start, items) ==
  IF items = << >> THEN start ELSE Max(start, MaxDate(items))

(* ------------------------- orders flow: Init --------------------------- *)
OInit ==
  /\ watermark = InitialValue
  /\ o_pc = "idle"
  /\ since = InitialValue
  /\ orders = << >>
  /\ complexity = 0
  /\ credits = 0
  /\ increment_rate = 0
  /\ idx = 0
  /\ received = << >>
  /\ pending = << >>
  /\ calls = << >>
  /\ result = << >>
  /\ yielded = << >>
  /\ o_exc = "none"
  /\ source = << >>

(* ------------------------ orders flow: actions ------------------------- *)
\* mutant: the orders enriched so far are yielded before the exception leaves
Raise_YieldsDone(e) ==
  /\ o_pc' = "failed"
  /\ o_exc' = e
  /\ yielded' = IF idx >= 2 THEN SubSeq(orders, 1, idx - 1) ELSE << >>
  /\ watermark' = LastValue(since, yielded')
  /\ UNCHANGED result

\* the run fails: the exception propagates out of get_orders, nothing is
\* yielded and the framework persists no state
Raise(e) ==
  /\ o_pc' = "failed"
  /\ o_exc' = e
  /\ UNCHANGED << watermark, yielded, result >>

\* query_shiphero returned data to get_orders, which yields it (or returns
\* at once when it is empty); the run ends and the cursor state is saved
Finish(data) ==
  /\ result' = data
  /\ yielded' = YieldFrom(data)
  /\ watermark' = LastValue(since, YieldFrom(data))
  /\ o_pc' = "done"
  /\ o_exc' = "none"

\* the framework starts a run: get_orders is called with the persisted cursor
\* and query_shiphero posts the orders query
StartRun ==
  /\ o_pc \in {"idle", "done", "failed"}
  /\ o_pc' = "orders"
  /\ since' = watermark
  /\ orders' = << >>
  /\ complexity' = 0
  /\ credits' = 0
  /\ increment_rate' = 0
  /\ idx' = 0
  /\ received' = << >>
  /\ pending' = << >>
  /\ calls' = << >>
  /\ result' = << >>
  /\ yielded' = << >>
  /\ o_exc' = "none"
  /\ UNCHANGED watermark
  /\ UNCHANGED << avars, source >>

\* requests.post of the orders query raises (connection error, bad JSON)
OrdersRequestFails ==
  /\ o_pc = "orders"
  /\ Raise("RequestException")
  /\ UNCHANGED << since, orders, complexity, credits, increment_rate, idx,
                  received, pending, calls >>
  /\ UNCHANGED << avars, source >>

\* the orders response arrives: get_orders_data, then query_shiphero up to
\* the loop over the orders
OrdersResponse(body) ==
  /\ o_pc = "orders"
  /\ received' = Append(received, body)
  /\ LET r == get_orders_data(body) IN
       IF r.exc # "none"
         THEN /\ Raise(r.exc)
              /\ UNCHANGED << orders, complexity, credits, increment_rate, idx >>
         ELSE /\ orders' = r.data
              /\ credits' = r.credits
              /\ increment_rate' = r.increment_rate
              /\ IF NoNewData(since, r.data)
                   THEN /\ Finish(<< >>)
                        /\ complexity' = r.complexity
                        /\ UNCHANGED idx
                   ELSE /\ complexity' = LINE_ITEMS_COMPLEXITY
                        /\ idx' = 1
                        /\ o_pc' = "loop"
                        /\ UNCHANGED << watermark, yielded, result, o_exc >>
  /\ UNCHANGED << since, pending, calls >>
  /\ UNCHANGED << avars, source >>

\* top of a loop iteration with credits < complexity: time.sleep
LoopSleep ==
  /\ o_pc = "loop"
  /\ NeedsSleep(credits, complexity)
  /\ IF increment_rate = 0
       THEN /\ Raise("ZeroDivisionError")
            /\ UNCHANGED pending
       ELSE /\ pending' = Append(pending, SleepSeconds(complexity, increment_rate))
            /\ o_pc' = "call"
            /\ UNCHANGED << watermark, yielded, result, o_exc >>
  /\ UNCHANGED << since, orders, complexity, credits, increment_rate, idx,
                  received, calls >>
  /\ UNCHANGED << avars, source >>

\* get_order_items posts the line-item query for orders[i]["id"]
ItemsCall ==
  /\ \/ o_pc = "call"
     \/ o_pc = "loop" /\ ~NeedsSleep(credits, complexity)
  /\ calls' = Append(calls, [id |-> orders[idx].id, sleeps |-> pending])
  /\ pending' = << >>
  /\ o_pc' = "await"
  /\ UNCHANGED << watermark, since, orders, complexity, credits,
                  increment_rate, idx, received, result, yielded, o_exc >>
  /\ UNCHANGED << avars, source >>

\* requests.post of the line-item query raises
ItemsRequestFails ==
  /\ o_pc = "await"
  /\ Raise("RequestException")
  /\ UNCHANGED << since, orders, complexity, credits, increment_rate, idx,
                  received, pending, calls >>
  /\ UNCHANGED << avars, source >>

\* the line-item response arrives: get_order_items, the attachment, and the
\* next iteration or the return of the enriched list
ItemsResponse(body) ==
  /\ o_pc = "await"
  /\ received' = Append(received, body)
  /\ LET r == get_order_items(body) IN
       IF r.exc # "none"
         THEN /\ Raise(r.exc)
              /\ UNCHANGED << orders, complexity, credits, increment_rate, idx >>
         ELSE /\ orders' = AttachLineItems(orders, idx, r.data)
              /\ complexity' = r.complexity
              /\ credits' = r.credits
              /\ increment_rate' = r.increment_rate
              /\ idx' = idx + 1
              /\ IF idx = Len(orders)
                   THEN Finish(AttachLineItems(orders, idx, r.data))
                   ELSE /\ o_pc' = "loop"
                        /\ UNCHANGED << watermark, yielded, result, o_exc >>
  /\ UNCHANGED << since, pending, calls >>
  /\ UNCHANGED << avars, source >>

\* the bodies the API may answer an orders query with
OrdersBodies ==
  { [data |-> d] : d \in OrderLists }
    \cup { [data |-> d, extensions |-> e] : d \in OrderLists, e \in Extensions }

\* the bodies the API may answer the line-item query for id with
ItemsBodies(id) ==
  { [data |-> ServerLineItems(id)] }
    \cup { [data |-> ServerLineItems(id), extensions |-> e] : e \in Extensions }

ONext ==
  \/ StartRun
  \/ OrdersRequestFails
  \/ /\ o_pc = "orders"
     /\ \E body \in OrdersBodies : OrdersResponse(body)
  \/ LoopSleep
  \/ ItemsCall
  \/ ItemsRequestFails
  \/ /\ o_pc = "await"
     /\ \E body \in ItemsBodies(calls[Len(calls)].id) : ItemsResponse(body)

(* ===================== the AppLovin ad-metrics flow ==================== *)
\* response.text[:1000] in the error of a 400/403/404
ErrorTextLimit == 1000
\* int(response.headers.get("Retry-After", 60))
DefaultRetryAfter == 60

\* the columns list of get_advertiser_data
columns ==
  << "day", "hour", "campaign", "campaign_id", "ad", "ad_id", "ad_type",
     "ad_creative_type", "creative_set", "creative_set_id", "impressions",
     "clicks", "ctr", "conversions", "cost", "sales", "roas_0d", "roas_7d",
     "chka_0d", "chka_7d", "chka_usd_0d", "chka_usd_7d", "cost_per_chka_0d",
     "cost_per_chka_7d" >>

ColumnSet == Range(columns)

\* Python's None
None == "<None>"

\* mutant: a null-like coercion that loses the value "x"
Get_Lossy(record, key) ==
  IF key \in DOMAIN record /\ record[key] # "x" THEN record[key] ELSE None

\* record.get(key)
Get(record, key) == IF key \in DOMAIN record THEN record[key] ELSE None

transform_record(record) ==
  [ day |-> Get(record, "day"),
    hour |-> Get(record, "hour"),
    campaign |-> Get(record, "campaign"),
    campaign_id_external |-> Get(record, "campaign_id"),
    ad |-> Get(record, "ad"),
    ad_id |-> Get(record, "ad_id"),
    ad_type |-> Get(record, "ad_type"),
    ad_creative_type |-> Get(record, "ad_creative_type"),
    creative_set |-> Get(record, "creative_set"),
    creative_set_id |-> Get(record, "creative_set_id"),
    impressions |-> Get(record, "impressions"),
    clicks |-> Get(record, "clicks"),
    ctr |-> Get(record, "ctr"),
    conversions |-> Get(record, "conversions"),
    cost |-> Get(record, "cost"),
    sales |-> Get(record, "sales"),
    roas_0d |-> Get(record, "roas_0d"),
    roas_7d |-> Get(record, "roas_7d"),
    chka_0d |-> Get(record, "chka_0d"),
    chka_usd_0d |-> Get(record, "chka_usd_0d"),
    cost_per_chka_0d |-> Get(record, "cost_per_chka_0d"),
    chka_7d |-> Get(record, "chka_7d"),
    chka_usd_7d |-> Get(record, "chka_usd_7d"),
    cost_per_chka_7d |-> Get(record, "cost_per_chka_7d"),
    Start_Date |-> Get(record, "day"),
    End_Date |-> Get(record, "day") ]

\* [transform_record(record) for record in raw_data]
TransformAll(raw) == [k \in 1..Len(raw) |-> transform_record(raw[k])]

\* int(s) of a decimal string, given as its digits
RECURSIVE ParseInt(_)
ParseInt(digits) ==
  IF digits = << >> THEN 0
  ELSE 10 * ParseInt(SubSeq(digits, 1, Len(digits) - 1)) + digits[Len(digits)]

\* mutant: the Retry-After header is ignored
RetryAfter_Ignored(headers) == DefaultRetryAfter

\* handle_rate_limit's retry_after for the headers of a 429 response
RetryAfter(headers) ==
  IF "Retry-After" \in DOMAIN headers
    THEN ParseInt(headers["Retry-After"])
    ELSE DefaultRetryAfter

\* handle_rate_limit's test
IsRateLimited(status) == status = 429

\* mutant: 403 is left to raise_for_status
IsApiError_No403(status) == status \in {400, 404}

\* the statuses get_advertiser_data raises its own Exception for
IsApiError(status) == status \in {400, 403, 404}

\* whether response.raise_for_status() raises HTTPError
RaisesForStatus(status) == status >= 400 /\ status < 600

\* a text of len characters, and its slice text[:n]
Text(len) == [len |-> len]
Slice(text, n) == [len |-> IF text.len <= n THEN text.len ELSE n]

\* results = data.get("results", []) or data.get("data", []) or data.get("rows", [])
GetList(data, key) == IF key \in DOMAIN data THEN data[key] ELSE << >>
ExtractResults(data) ==
  IF GetList(data, "results") # << >> THEN GetList(data, "results")
  ELSE IF GetList(data, "data") # << >> THEN GetList(data, "data")
  ELSE GetList(data, "rows")

\* the request parameters built by get_advertiser_data
Params(start_date, end_date) ==
  [start |-> start_date, end |-> end_date, format |-> "json",
   columns |-> columns]

\* the last-7-days window of advertiser_data, in day numbers
WindowEnd(today) == today - 1
WindowStart(today) == WindowEnd(today) - 6

(* --------------------- the reporting API, as input --------------------- *)
\* raw records: fully populated ones (each column holds its own name, but
\* for one column that holds "x" or null), and sparse ones
FullRecords ==
  { [c \in ColumnSet |-> IF c = hot THEN v ELSE c] :
      hot \in ColumnSet, v \in {"x", None} }

SparseRecords ==
  { [c \in {"day", "ad_id"} |-> c], [c \in {"campaign_id"} |-> c] }

RawRecords == FullRecords \cup SparseRecords

SampleRecord == [c \in ColumnSet |-> c]

\* JSON bodies of a report: any of the three result keys may be absent, empty
\* or hold records
JsonBodies ==
  { [k \in S |-> IF k = "results" THEN res ELSE IF k = "data" THEN dat ELSE rows] :
      S \in SUBSET {"results", "data", "rows"},
      res \in { << >> } \cup { << r >> : r \in RawRecords },
      dat \in { << >>, << SampleRecord, [c \in {"day"} |-> "d"] >> },
      rows \in { << >>, << [c \in {"day"} |-> "r"] >> } }

FinalStatuses == {200, 304, 400, 403, 404, 500}

ErrorTexts == { Text(0), Text(ErrorTextLimit), Text(ErrorTextLimit + 1) }

RetryAfterHeaders ==
  { << >> } \cup
  { [h \in {"Retry-After"} |-> d] : d \in { <<0>>, <<5>>, <<1, 2, 0>> } }

Days == 20..21

NoExc == [type |-> "none"]

AInit ==
  /\ a_pc = "idle"
  /\ a_key = TRUE
  /\ a_window = [start |-> 0, end |-> 0]
  /\ a_requests = << >>
  /\ a_received = << >>
  /\ a_sleeps = << >>
  /\ a_raw = << >>
  /\ a_yielded = << >>
  /\ a_exc = NoExc

\* an exception leaves get_advertiser_data; advertiser_data logs it and
\* re-raises, having yielded nothing
AFail(e) ==
  /\ a_pc' = "failed"
  /\ a_exc' = e
  /\ UNCHANGED << a_raw, a_yielded >>

\* get_advertiser_data is entered: the key check, then requests.get; sent
\* are the requests of this run so far
EnterFetch(key, window, sent) ==
  IF ~key
    THEN [pc |-> "failed", exc |-> [type |-> "ValueError"], requests |-> sent]
    ELSE [pc |-> "wait", exc |-> NoExc,
          requests |-> Append(sent, Params(window.start, window.end))]

\* the resource advertiser_data runs: it computes the window and calls
\* get_advertiser_data
AStart(today, key) ==
  /\ a_pc \in {"idle", "done", "failed"}
  /\ a_key' = key
  /\ a_window' = [start |-> WindowStart(today), end |-> WindowEnd(today)]
  /\ a_received' = << >>
  /\ a_sleeps' = << >>
  /\ a_raw' = << >>
  /\ a_yielded' = << >>
  /\ LET e == EnterFetch(key, a_window', << >>) IN
       /\ a_pc' = e.pc
       /\ a_exc' = e.exc
       /\ a_requests' = e.requests
  /\ UNCHANGED ovars

\* requests.get raises (timeout, connection error)
ARequestFails ==
  /\ a_pc = "wait"
  /\ AFail([type |-> "RequestException"])
  /\ UNCHANGED << a_key, a_window, a_requests, a_received, a_sleeps >>
  /\ UNCHANGED ovars

\* a 429 arrives: handle_rate_limit sleeps and returns True
ARateLimited(status, headers) ==
  /\ a_pc = "wait"
  /\ IsRateLimited(status)
  /\ Len(a_sleeps) < MaxRetry
  /\ a_received' = Append(a_received, [status |-> status, headers |-> headers,
                                      text |-> Text(0)])
  /\ a_sleeps' = Append(a_sleeps, RetryAfter(headers))
  /\ a_pc' = "slept"
  /\ UNCHANGED << a_key, a_window, a_requests, a_raw, a_yielded, a_exc >>
  /\ UNCHANGED ovars

\* return get_advertiser_data(start_date, end_date, context)
ARetry ==
  /\ a_pc = "slept"
  /\ LET e == EnterFetch(a_key, a_window, a_requests) IN
       /\ a_pc' = e.pc
       /\ a_exc' = e.exc
       /\ a_requests' = e.requests
  /\ UNCHANGED << a_key, a_window, a_received, a_sleeps, a_raw, a_yielded >>
  /\ UNCHANGED ovars

\* any other response arrives: the rest of get_advertiser_data, then the
\* rest of advertiser_data; json is what response.json() decodes, << obj >>,
\* or << >> when the body is no JSON
AResponse(status, text, json) ==
  /\ a_pc = "wait"
  /\ ~IsRateLimited(status)
  /\ a_received' = Append(a_received, [status |-> status, headers |-> << >>,
                                      text |-> text])
  /\ IF IsApiError(status)
       THEN AFail([type |-> "Exception", status |-> status,
                   text |-> Slice(text, ErrorTextLimit)])
     ELSE IF RaisesForStatus(status)
       THEN AFail([type |-> "HTTPError", status |-> status])
     ELSE IF json = << >>
       THEN AFail([type |-> "JSONDecodeError"])
     ELSE /\ a_raw' = ExtractResults(json[1])
          /\ a_yielded' = IF ExtractResults(json[1]) # << >>
                            THEN << TransformAll(ExtractResults(json[1])) >>
                            ELSE << >>
          /\ a_pc' = "done"
          /\ a_exc' = NoExc
  /\ UNCHANGED << a_key, a_window, a_requests, a_sleeps >>
  /\ UNCHANGED ovars

ANext ==
  \/ \E today \in Days, key \in BOOLEAN : AStart(today, key)
  \/ ARequestFails
  \/ /\ a_pc = "wait"
     /\ \E headers \in RetryAfterHeaders : ARateLimited(429, headers)
  \/ ARetry
  \/ /\ a_pc = "wait"
     /\ \E status \in {400, 403, 404}, text \in ErrorTexts :
          AResponse(status, text, << >>)
  \/ /\ a_pc = "wait"
     /\ \E status \in FinalStatuses \ {400, 403, 404},
           json \in { << >> } \cup { << b >> : b \in JsonBodies } :
          AResponse(status, Text(0), json)

(* ------------- the orders flow against a fixed account --------------- *)
\* the non-decreasing sequences of n timestamps, none below lo
RECURSIVE SortedTimes(_, _)
SortedTimes(n, lo) ==
  IF n = 0 THEN { << >> }
  ELSE UNION { { << t >> \o rest : rest \in SortedTimes(n - 1, t) } :
               t \in lo..MaxTime }

\* the accounts: up to MaxSource orders, ids 1..n, oldest first
SourceLists ==
  UNION { { [k \in 1..n |-> [id |-> k, updated_at |-> ts[k]]] :
              ts \in SortedTimes(n, 0) } :
          n \in 0..MaxSource }

RECURSIVE SelectFrom(_, _)
\* the orders of src with updated_at >= from, in the order of src
SelectFrom(src, from) ==
  IF src = << >> THEN << >>
  ELSE IF Head(src).updated_at >= from
    THEN << Head(src) >> \o SelectFrom(Tail(src), from)
    ELSE SelectFrom(Tail(src), from)

\* the orders query (updated_from: since, first: ORDERS_LIMIT) answered from
\* the account: the first ORDERS_LIMIT orders updated at or after updated_from,
\* oldest first; every order of the account lies before updated_to
OrdersPage(src, updated_from) ==
  LET match == SelectFrom(src, updated_from)
  IN  SubSeq(match, 1, IF Len(match) <= ORDERS_LIMIT THEN Len(match)
                       ELSE ORDERS_LIMIT)

\* throttling blocks of calls that succeed
HealthyThrottles == { Throttle(102, 200, 60), Throttle(102, 50, 60) }

\* the body answering the orders query of the current run
AccountOrdersBodies ==
  { [data |-> OrdersPage(source, since), extensions |-> e] :
      e \in HealthyThrottles }

\* the body answering the line-item query for id
AccountItemsBodies(id) ==
  { [data |-> ServerLineItems(id), extensions |-> Throttle(102, 50, 60)] }

InitAccount ==
  /\ watermark = InitialValue
  /\ o_pc = "idle"
  /\ since = InitialValue
  /\ orders = << >>
  /\ complexity = 0
  /\ credits = 0
  /\ increment_rate = 0
  /\ idx = 0
  /\ received = << >>
  /\ pending = << >>
  /\ calls = << >>
  /\ result = << >>
  /\ yielded = << >>
  /\ o_exc = "none"
  /\ source \in SourceLists
  /\ AInit

\* runs of the orders flow, one after another, in which no call fails
NextAccount ==
  \/ StartRun
  \/ /\ o_pc = "orders"
     /\ \E body \in AccountOrdersBodies : OrdersResponse(body)
  \/ LoopSleep
  \/ ItemsCall
  \/ /\ o_pc = "await"
     /\ \E body \in AccountItemsBodies(calls[Len(calls)].id) : ItemsResponse(body)

(* --------------------------- specifications ---------------------------- *)
vars == << ovars, avars >>

Init == OInit /\ AInit

\* the orders flow
Next == ONext

Spec == Init /\ [][Next]_vars

\* the ad-metrics flow
NextAds == ANext

SpecAds == Init /\ [][NextAds]_vars

\* the orders flow run again and again against a fixed account: the scheduler
\* keeps starting runs and every started run takes its next step
SpecAccount == InitAccount /\ [][NextAccount]_vars /\ WF_vars(NextAccount)

(* ============================ the claims =============================== *)
\* the orders response of the current run has arrived
OrdersResponded == received # << >>

\* the order nodes of that response
FetchedOrders == received[1]["data"]

\* a response body carries the three throttling paths
HasThrottle(body) ==
  /\ "extensions" \in DOMAIN body
  /\ ThrottlePaths \subseteq DOMAIN body["extensions"]

\* no order of ords is fresher than s
NoneFresher(ords, s) == \A k \in 1..Len(ords) : ords[k].updated_at <= s

\* m is the maximum updated_at of the non-empty list ords
IsMaxOf(m, ords) ==
  /\ \E k \in 1..Len(ords) : ords[k].updated_at = m
  /\ NoneFresher(ords, m)

\* C1's case: zero orders, or the maximum updated_at equals since
NothingNew == FetchedOrders = << >> \/ IsMaxOf(since, FetchedOrders)

\* the clean empty end of a run
CleanEmptyEnd ==
  /\ o_pc = "done"
  /\ o_exc = "none"
  /\ result = << >>
  /\ calls = << >>
  /\ yielded = << >>
  /\ Len(received) = 1

\* C1 as stated: for every orders response, if it holds zero orders or its
\* maximum updated_at equals since, query_shiphero returns an empty result, no
\* exception is raised, no line-item call is issued and get_orders yields nothing.
C1_Stated == (OrdersResponded /\ NothingNew) => CleanEmptyEnd

\* C1 (amended): for every orders response that carries the three throttling
\* paths, if it holds zero orders or its maximum updated_at equals since,
\* query_shiphero returns an empty result, no exception is raised, no line-item
\* call is issued and get_orders ends without yielding any record.
C1_NoNewData ==
  (OrdersResponded /\ HasThrottle(received[1]) /\ NothingNew) => CleanEmptyEnd

C1_Witness ==
  /\ OrdersResponded
  /\ HasThrottle(received[1])
  /\ Len(FetchedOrders) = 2
  /\ IsMaxOf(since, FetchedOrders)
  /\ CleanEmptyEnd

\* C2: for every run and every set of returned orders, if no returned order has
\* updated_at strictly greater than since, the run ends having yielded no record
\* and with the persisted watermark unchanged.
C2_Stated ==
  (o_pc \in {"done", "failed"} /\ OrdersResponded
     /\ NoneFresher(FetchedOrders, since))
    => (yielded = << >> /\ watermark = since)

\* C3: the persisted watermark never decreases and only ever changes, at the end
\* of a run, to the maximum updated_at among the orders fetched in that run; a
\* completed run whose orders include one at since and one fresher leaves the
\* watermark at that fresher maximum, not at since.
C3_Watermark ==
  /\ [](o_pc # "done" => (o_pc = "idle" \/ watermark = since))
  /\ []((/\ o_pc = "done"
         /\ \E k \in 1..Len(FetchedOrders) : FetchedOrders[k].updated_at = since
         /\ \E k \in 1..Len(FetchedOrders) : FetchedOrders[k].updated_at > since)
        => (IsMaxOf(watermark, FetchedOrders) /\ watermark > since))
  /\ [][/\ watermark' >= watermark
        /\ watermark' # watermark
             => (o_pc' = "done" /\ IsMaxOf(watermark', FetchedOrders))]_vars

C3_Witness ==
  /\ o_pc = "done"
  /\ since = InitialValue
  /\ Len(FetchedOrders) = 2
  /\ FetchedOrders[2].updated_at = since
  /\ FetchedOrders[1].updated_at > since
  /\ watermark = FetchedOrders[1].updated_at

\* the throttling block of the response that immediately precedes the k-th
\* line-item call: the orders response for k = 1, the (k-1)-th line-item
\* response afterwards
Preceding(k) == received[k]["extensions"]

PrecedingCredits(k) == Preceding(k)["throttling/user_quota/credits_remaining"]

PrecedingRate(k) == Preceding(k)["throttling/user_quota/increment_rate"]

PrecedingComplexity(k) == Preceding(k)["throttling/estimated_complexity"]

\* the sleeps before the k-th call are exactly one sleep of c / rate * 1.5 s
SleptOnceFor(k, c) ==
  /\ Len(calls[k].sleeps) = 1
  /\ calls[k].sleeps[1].num * 2 * PrecedingRate(k)
       = calls[k].sleeps[1].den * 3 * c

\* C4 as stated: before every line-item call the flow sleeps exactly once, for
\* 102 / increment_rate * 1.5 s, iff the preceding response's credits_remaining
\* is below 102, the complexity of a line-item call, and does not sleep otherwise.
C4_Stated ==
  \A k \in 1..Len(calls) :
    IF PrecedingCredits(k) < 102
      THEN SleptOnceFor(k, 102)
      ELSE calls[k].sleeps = << >>

\* the complexity the k-th call is weighed with
NextComplexity(k) == IF k = 1 THEN 102 ELSE PrecedingComplexity(k)

\* C4 (amended): before every line-item call the flow sleeps exactly once, for
\* complexity / increment_rate * 1.5 s, iff credits_remaining < complexity, and
\* does not sleep otherwise, where credits_remaining and increment_rate are
\* those of the immediately preceding response and complexity is 102 before the
\* first line-item call and the estimated_complexity reported by the previous
\* line-item response afterwards; with increment_rate = 0 the sleep that is due
\* raises ZeroDivisionError instead and the call is not issued.
C4_Throttle ==
  /\ \A k \in 1..Len(calls) :
       IF PrecedingCredits(k) < NextComplexity(k)
         THEN SleptOnceFor(k, NextComplexity(k)) /\ PrecedingRate(k) # 0
         ELSE calls[k].sleeps = << >>
  /\ o_pc = "done" => pending = << >>
  /\ o_exc = "ZeroDivisionError"
       => /\ Len(received) = Len(calls) + 1
          /\ PrecedingRate(Len(received)) = 0
          /\ PrecedingCredits(Len(received)) < NextComplexity(Len(received))
          /\ pending = << >>

C4_Witness ==
  /\ Len(calls) = 2
  /\ PrecedingCredits(1) = 200
  /\ calls[1].sleeps = << >>
  /\ PrecedingCredits(2) = 50
  /\ PrecedingRate(2) = 60
  /\ calls[2].sleeps = << [num |-> 306, den |-> 120] >>

\* the line-item array the k-th call returned
Returned(k) == received[k + 1]["data"]

\* C7: the line-item calls are issued one per returned order, in response
\* order, each keyed by that order's id and each only after the previous one has
\* returned; the list query_shiphero returns holds the same orders in the same
\* order, each with the array returned by the call made for its own id.
C7_LineItems ==
  /\ Len(calls) <= (IF OrdersResponded THEN Len(FetchedOrders) ELSE 0)
  /\ \A k \in 1..Len(calls) : calls[k].id = FetchedOrders[k].id
  /\ Len(calls) <= Len(received)
  /\ o_pc \in {"loop", "call", "done"} => Len(received) = Len(calls) + 1
  /\ (o_pc = "done" /\ result # << >>)
       => /\ Len(calls) = Len(FetchedOrders)
          /\ Len(result) = Len(FetchedOrders)
          /\ \A k \in 1..Len(result) :
               /\ result[k].id = FetchedOrders[k].id
               /\ result[k].updated_at = FetchedOrders[k].updated_at
               /\ result[k].line_items = Returned(k)
               /\ result[k].line_items = ServerLineItems(result[k].id)

C7_Witness ==
  /\ o_pc = "done"
  /\ Len(result) = 2
  /\ result[1].id = 2
  /\ result[1].line_items # << >>
  /\ result[2].line_items = << >>

\* the last response body received in the current run
LastBody == received[Len(received)]

\* C8: given an extensions object, process_extensions returns the three values
\* at the three throttling paths when all are present, and fails (IndexError,
\* the spec's MalformedResponseError) when any one is absent; the failure ends
\* the run: the fetch that called it is aborted and no call follows it.
C8_Extensions ==
  (OrdersResponded /\ "extensions" \in DOMAIN LastBody)
    => IF ThrottlePaths \subseteq DOMAIN LastBody["extensions"]
         THEN /\ o_exc \notin {"IndexError", "KeyError"}
              /\ credits = PrecedingCredits(Len(received))
              /\ increment_rate = PrecedingRate(Len(received))
              /\ complexity = PrecedingComplexity(Len(received))
                   \/ (Len(received) = 1 /\ complexity = 102)
         ELSE /\ o_pc = "failed"
              /\ o_exc = "IndexError"
              /\ Len(calls) = Len(received) - 1
              /\ yielded = << >>
              /\ result = << >>

\* a line-item response lacking one path, after one well-formed line-item response
C8_Witness ==
  /\ Len(received) = 3
  /\ "extensions" \in DOMAIN LastBody
  /\ DOMAIN LastBody["extensions"] =
       ThrottlePaths \ {"throttling/user_quota/increment_rate"}
  /\ o_exc = "IndexError"

\* C10: a run in which the orders call or a line-item call fails yields no
\* order at all, ends with the exception, and leaves the persisted watermark as
\* it was before the run; nothing is yielded before the run completes.
C10_AllOrNothing ==
  /\ o_pc = "failed"
       => (yielded = << >> /\ o_exc # "none" /\ watermark = since)
  /\ o_pc \in {"orders", "loop", "call", "await"}
       => (yielded = << >> /\ watermark = since)
  /\ o_exc # "none" => o_pc = "failed"

\* the second line-item call fails after the first order was enriched
C10_Witness ==
  /\ o_pc = "failed"
  /\ Len(calls) = 2
  /\ "line_items" \in DOMAIN orders[1]
  /\ orders[1].updated_at > since
  /\ yielded = << >>

(* ---------------------- ad-metrics flow claims ------------------------- *)
\* the seconds a Retry-After header of the model stands for
HeaderSeconds(headers) ==
  IF headers = << >> THEN 60
  ELSE IF headers["Retry-After"] = <<0>> THEN 0
  ELSE IF headers["Retry-After"] = <<5>> THEN 5
  ELSE 120

\* the fetch has ended on a response (not on a failed request or a missing key)
EndedOnResponse ==
  /\ a_pc \in {"done", "failed"}
  /\ a_exc.type \notin {"RequestException", "ValueError"}

LastResponse == a_received[Len(a_received)]

\* never a sleep or a request after the response that ended the fetch, nor a
\* record from a failed fetch
NoPartialLoad ==
  /\ EndedOnResponse
       => /\ Len(a_requests) = Len(a_received)
          /\ Len(a_sleeps) = Len(a_received) - 1
  /\ a_pc = "failed" => (a_yielded = << >> /\ a_exc # NoExc)
  /\ a_pc \in {"wait", "slept"} => a_yielded = << >>

\* C6 as stated: a 400, 403 or 404 fails the fetch at once with an error
\* carrying the status and the response body, with no sleep and no further
\* request; any other non-2xx, non-429 status also raises; a failed fetch
\* yields no record and its error propagates.
C6_Stated ==
  /\ (EndedOnResponse /\ LastResponse.status \in {400, 403, 404})
       => /\ a_pc = "failed"
          /\ a_exc.type = "Exception"
          /\ a_exc.status = LastResponse.status
          /\ a_exc.text = LastResponse.text
  /\ (EndedOnResponse /\ LastResponse.status \notin (200..299) \cup {429})
       => a_pc = "failed"
  /\ NoPartialLoad

\* C6 (amended): a 400, 403 or 404 fails the fetch at once with an error
\* carrying the status and the first 1000 characters of the response body, with
\* no sleep and no further request; any other 4xx or 5xx status except 429
\* also raises (statuses below 400 do not); a failed fetch yields no record and
\* its error propagates.
C6_ApiError ==
  /\ (EndedOnResponse /\ LastResponse.status \in {400, 403, 404})
       => /\ a_pc = "failed"
          /\ a_exc.type = "Exception"
          /\ a_exc.status = LastResponse.status
          /\ a_exc.text.len =
               (IF LastResponse.text.len <= 1000 THEN LastResponse.text.len
                ELSE 1000)
  /\ (EndedOnResponse /\ LastResponse.status \in (400..599) \ {429})
       => a_pc = "failed"
  /\ (EndedOnResponse /\ a_exc.type = "HTTPError")
       => LastResponse.status \in (400..599) \ {400, 403, 404, 429}
  /\ NoPartialLoad

\* a 403 with an over-long body, after one 429
C6_Witness ==
  /\ a_pc = "failed"
  /\ Len(a_received) = 2
  /\ LastResponse.status = 403
  /\ LastResponse.text.len = 1001
  /\ a_exc.type = "Exception"
  /\ a_exc.text.len = 1000
  /\ a_yielded = << >>

\* the raw record k of the run was fully populated
FullyPopulated(k) == DOMAIN a_raw[k] = ColumnSet

\* the transformed record k of the run
Transformed(k) == a_yielded[1][k]

\* C9 as stated: for every fully populated raw record, reading the transformed
\* record back under the raw record's own key names yields the original value
\* for every one of the 24 keys.
C9_Stated ==
  a_yielded # << >>
    => \A k \in 1..Len(a_raw) :
         FullyPopulated(k)
           => \A c \in ColumnSet :
                /\ c \in DOMAIN Transformed(k)
                /\ Transformed(k)[c] = a_raw[k][c]

\* C9 (amended): for every fully populated raw record, reading the transformed
\* record back yields the original value unchanged for every one of the 24
\* keys, under the same key name for 23 of them and under
\* campaign_id_external for campaign_id, which the transform renames.
C9_RoundTrip ==
  a_yielded # << >>
    => /\ Len(a_yielded) = 1
       /\ Len(a_yielded[1]) = Len(a_raw)
       /\ \A k \in 1..Len(a_raw) :
            FullyPopulated(k)
              => /\ \A c \in ColumnSet \ {"campaign_id"} :
                      /\ c \in DOMAIN Transformed(k)
                      /\ Transformed(k)[c] = a_raw[k][c]
                 /\ "campaign_id" \notin DOMAIN Transformed(k)
                 /\ Transformed(k)["campaign_id_external"]
                      = a_raw[k]["campaign_id"]

C9_Witness ==
  /\ a_yielded # << >>
  /\ FullyPopulated(1)
  /\ a_raw[1]["campaign_id"] = "x"
  /\ Transformed(1)["campaign_id_external"] = "x"

(* -------------------- eventual ingestion (C11) ------------------------- *)
\* the order with this id is among the records the current run yielded
YieldedNow(id) == \E k \in 1..Len(yielded) : yielded[k].id = id

\* C11 as stated: when the flow is run repeatedly without failures against a
\* fixed set of source orders, every source order whose updated_at is strictly
\* greater than the current watermark is eventually yielded by some run.
C11_Stated ==
  \A n \in 1..MaxSource :
    []((n <= Len(source) /\ source[n].updated_at > watermark)
         => <>YieldedNow(n))

====
